---- MODULE Spec2Model ----
(***************************************************************************)
(* DramaRadar: scripts/maoyan_web_heat_monitor.py.                         *)
(*                                                                         *)
(* One run fetches the web-heat page, extracts the drama items, compares   *)
(* them with the SQLite ledger (table dramas, table meta) and sends a      *)
(* Telegram message for the new ones.  The ledger is the only durable      *)
(* state; runs are serialized by an external scheduler.                    *)
(*                                                                         *)
(* Strings are sequences of tokens.  SP is one whitespace character, ON is *)
(* the marker "上线", FD is "首日", D8 is "8天"; every other token is a     *)
(* run of non-blank characters that holds no marker.                       *)
(***************************************************************************)
EXTENDS Integers, Sequences, FiniteSets, TLC

VARIABLES
    \* ---- the store file (durable) ----
    dbExists,     \* os.path.exists(db_path)
    hasSource,    \* table dramas still has the obsolete column "source"
    dramas,       \* table dramas: name -> row
    last_run_at,  \* table meta, key last_run_at (NoValue when absent)
    dramas_new,   \* table dramas_new exists (left by an interrupted rebuild)
    \* ---- the environment ----
    clock,        \* the last instant now_shanghai() returned
    ioFaults,     \* whether statements on the store may raise
    \* ---- one run of main() ----
    pc,           \* position in main(), or of the store driver
    args,         \* argparse namespace: dry_run, no_telegram
    tg,           \* load_telegram_from_env(): bot_token, chat_id
    attempt,      \* fetch_maoyan_html: loop variable
    last_error,   \* fetch_maoyan_html: last_error (NoValue is None)
    html,         \* the fetched page
    items,        \* main: items
    dt,           \* main: dt
    new_items,    \* main: new_items
    exitCode,     \* the process exit status (Running until the run ends)
    \* ---- observation of the run ----
    err,          \* what raised: kind ("" when nothing did) and, for the store,
                  \* the statement of the call that raised
    pre,          \* the store as it was when the run (or the call) began
    rendered,     \* number of build_telegram_text calls in this run
    handed,       \* texts passed to send_telegram_message in this run
    delivered,    \* texts the Telegram API accepted in this run
    upserts,      \* number of db_upsert_items calls in this run
    fetchLog,     \* the attempts fetch_maoyan_html has made in this call: what each
                  \* raised and how long the loop slept after it (tenths of a second)
    alerted,      \* names in a text handed to the sender by a run that returned 0
    call          \* the store driver's last call: op, arguments, result

vars == <<dbExists, hasSource, dramas, last_run_at, dramas_new, clock, ioFaults, pc,
          args, tg, attempt, html, items, dt, new_items, exitCode, err, pre, rendered,
          handed, delivered, upserts, call, fetchLog, last_error, alerted>>

storeVars == <<dbExists, hasSource, dramas, last_run_at, dramas_new>>
runVars == <<args, tg, attempt, html, items, dt, new_items, exitCode, err, rendered,
             handed, delivered, upserts, fetchLog, last_error, alerted>>

----------------------------------------------------------------------------
(* Bounds of the model *)

\* instants now_shanghai() can return: 1..MaxTime
MaxTime == 3
\* instants per calendar day
TicksPerDay == 2
\* name/info pairs on a fetched page
MaxPairs == 2
\* elements of a page given to parse_drama_items on its own
MaxElems == 6
\* records in one call of the store driver
MaxBatch == 2

(* Program constants *)

DEFAULT_TOP_N == 10
Retries == 3
\* time.sleep(0.8 * attempt), in tenths of a second
BaseDelay == 8
TopNMax == 100

NoValue == "NoValue"
Running == 0 - 1

SP == " "
ON == "ON"
FD == "FD"
D8 == "D8"

NameA == <<"A">>
NameB == <<"B">>
PlatP == <<"P">>
PlatQ == <<"Q">>

Min(a, b) == IF a < b THEN a ELSE b

----------------------------------------------------------------------------
(* Text helpers *)

\* s.split() joined by single blanks, without the leading blank being removed
RECURSIVE Squeeze(_)
Squeeze(s) ==
    IF s = <<>> THEN <<>>
    ELSE LET r == Squeeze(Tail(s)) IN
         IF Head(s) = SP
         THEN IF r = <<>> \/ Head(r) = SP THEN r ELSE <<SP>> \o r
         ELSE <<Head(s)>> \o r

\* " ".join(s.split()).strip()
NormalizeWs(s) ==
    LET q == Squeeze(s) IN
    IF q # <<>> /\ Head(q) = SP THEN Tail(q) ELSE q

\* info.find("上线"): position of the first marker, 0 when there is none
FindOnline(info) ==
    IF \E i \in 1..Len(info) : info[i] = ON
    THEN CHOOSE i \in 1..Len(info) :
            /\ info[i] = ON
            /\ \A j \in 1..(i - 1) : info[j] # ON
    ELSE 0

extract_platform(info) ==
    IF info = <<>> THEN <<>>
    ELSE LET idx == FindOnline(info)
             base == IF idx > 0 THEN SubSeq(info, 1, idx - 1) ELSE info
         IN NormalizeWs(base)

is_first_day_info(info) ==
    \E i \in 1..(Len(info) - 1) : info[i] = ON /\ info[i + 1] = FD

extract_online_desc(info) ==
    IF info = <<>> THEN <<>>
    ELSE LET idx == FindOnline(info) IN
         IF idx = 0 THEN <<>>
         ELSE NormalizeWs(SubSeq(info, idx, Len(info)))

----------------------------------------------------------------------------
(* MaoyanWebHeatParser: a page is a sequence of <p class=cls>text</p>      *)

\* handle_starttag .. handle_endtag of one element
HandleElement(st, el) ==
    LET text == NormalizeWs(el.text) IN
    IF el.cls = "name"
    THEN IF text # <<>> THEN [st EXCEPT !.names = Append(@, text)] ELSE st
    ELSE IF el.cls = "info"
    THEN [st EXCEPT !.infos = Append(@, text)]
    ELSE st

RECURSIVE ParserFeedFrom(_, _)
ParserFeedFrom(st, page) ==
    IF page = <<>> THEN st
    ELSE ParserFeedFrom(HandleElement(st, Head(page)), Tail(page))

ParserFeed(page) == ParserFeedFrom([names |-> <<>>, infos |-> <<>>], page)

DramaItem(name, raw_info) ==
    [name |-> name,
     platform |-> extract_platform(raw_info),
     is_first_day |-> is_first_day_info(raw_info),
     online_desc |-> extract_online_desc(raw_info)]

\* variant of UniqueFrom: unique[it.name] = it, whether the name is there or not
RECURSIVE UniqueFromLast(_, _)
UniqueFromLast(acc, its) ==
    IF its = <<>> THEN acc
    ELSE LET it == Head(its) IN
         IF \E k \in 1..Len(acc) : acc[k].name = it.name
         THEN UniqueFromLast([k \in 1..Len(acc) |->
                                 IF acc[k].name = it.name THEN it ELSE acc[k]],
                             Tail(its))
         ELSE UniqueFromLast(Append(acc, it), Tail(its))

\* the dict "unique": the first item of every name, in order of insertion
RECURSIVE UniqueFrom(_, _)
UniqueFrom(acc, its) ==
    IF its = <<>> THEN acc
    ELSE LET it == Head(its) IN
         IF \E k \in 1..Len(acc) : acc[k].name = it.name
         THEN UniqueFrom(acc, Tail(its))
         ELSE UniqueFrom(Append(acc, it), Tail(its))

ParseRaises(page) == ParserFeed(page).names = <<>>

parse_drama_items(page) ==
    LET p == ParserFeed(page)
        its == [i \in 1..Len(p.names) |->
                  DramaItem(p.names[i],
                            IF i <= Len(p.infos) THEN p.infos[i] ELSE <<>>)]
    IN UniqueFrom(<<>>, its)

\* get_top_n_from_env: DRAMARADAR_TOP_N is unset, an integer, or other text
TopNRaises(raw) ==
    \/ raw.kind = "text"
    \/ raw.kind = "int" /\ (raw.n <= 0 \/ raw.n > TopNMax)
get_top_n_from_env(raw) == IF raw.kind = "unset" THEN DEFAULT_TOP_N ELSE raw.n

\* items[:top_n]
Truncate(its, n) == SubSeq(its, 1, Min(n, Len(its)))

----------------------------------------------------------------------------
(* Dates *)

shanghai_date_str(t) == t \div TicksPerDay
\* dt.isoformat(): the date and the time of day
isoformat(t) == <<t \div TicksPerDay, t % TicksPerDay>>
shanghai_datetime_str(t) == <<t \div TicksPerDay, t % TicksPerDay>>

----------------------------------------------------------------------------
(* The novelty store.  A connection sees                                   *)
(*   [dbExists, hasSource, dramas, last_run_at, dramas_new].               *)
(* failAt names the statement of the call that raises: 0 for none, k for   *)
(* the k-th statement (the statements before it have been executed).       *)

Row(day, info) == [first_seen |-> day, last_seen |-> day, last_info |-> info]

Put(d, name, r) == [n \in DOMAIN d \cup {name} |-> IF n = name THEN r ELSE d[n]]

\* variant of WithConn: every statement is committed as it is executed
WithoutRollback(before, after, raised) == after

\* "with conn:" commits what its block did, or rolls it back when it raised
WithConn(before, after, raised) == IF raised THEN before ELSE after

db_is_empty(d) == Cardinality(DOMAIN d) = 0

\* variant of InsertOrIgnore: a record without a platform is not inserted
InsertUnlessBlank(d, it, day) ==
    IF it.name \in DOMAIN d \/ it.platform = <<>>
    THEN d
    ELSE Put(d, it.name, Row(day, it.platform))

\* variant of InsertOrIgnore: INSERT OR REPLACE
InsertOrReplace(d, it, day) == Put(d, it.name, Row(day, it.platform))

\* INSERT OR IGNORE INTO dramas
InsertOrIgnore(d, it, day) ==
    IF it.name \in DOMAIN d THEN d ELSE Put(d, it.name, Row(day, it.platform))

\* executemany over the first k items
RECURSIVE InsertRows(_, _, _, _)
InsertRows(d, its, day, k) ==
    IF k = 0 \/ its = <<>> THEN d
    ELSE InsertRows(InsertOrIgnore(d, Head(its), day), Tail(its), day, k - 1)

db_insert_baseline(st, its, t, failAt) ==
    LET day == shanghai_date_str(t)
        n == Len(its)
        done == IF failAt = 0 THEN n ELSE failAt - 1
        after == [st EXCEPT !.dramas = InsertRows(st.dramas, its, day, done),
                            !.last_run_at = IF failAt = 0 THEN isoformat(t) ELSE @]
    IN [store |-> WithConn(st, after, failAt # 0), raised |-> failAt # 0]

\* variant of FindNewFrom: new items are put at the front of the list
RECURSIVE FindNewFromFront(_, _, _)
FindNewFromFront(acc, d, its) ==
    IF its = <<>> THEN acc
    ELSE FindNewFromFront(IF Head(its).name \in DOMAIN d THEN acc
                                                          ELSE <<Head(its)>> \o acc,
                          d, Tail(its))

\* SELECT 1 FROM dramas WHERE name = ? for every item, in order
RECURSIVE FindNewFrom(_, _, _)
FindNewFrom(acc, d, its) ==
    IF its = <<>> THEN acc
    ELSE FindNewFrom(IF Head(its).name \in DOMAIN d THEN acc ELSE Append(acc, Head(its)),
                     d, Tail(its))

\* variant of db_find_new_items: the names looked up are recorded in the table
db_find_and_mark_items(st, its) ==
    [store |-> [st EXCEPT !.dramas = InsertRows(st.dramas, its, 0, Len(its))],
     result |-> FindNewFrom(<<>>, st.dramas, its)]

db_find_new_items(st, its) ==
    [store |-> st, result |-> FindNewFrom(<<>>, st.dramas, its)]

\* variant of UpsertOne: last_info = excluded.last_info, whatever it is
UpsertOneOverwrite(d, it, day) ==
    IF it.name \in DOMAIN d
    THEN Put(d, it.name,
             [d[it.name] EXCEPT !.last_seen = day, !.last_info = it.platform])
    ELSE Put(d, it.name, Row(day, it.platform))

\* INSERT ... ON CONFLICT(name) DO UPDATE SET last_seen, last_info
UpsertOne(d, it, day) ==
    IF it.name \in DOMAIN d
    THEN Put(d, it.name,
             [d[it.name] EXCEPT
                !.last_seen = day,
                !.last_info = IF it.platform # <<>> THEN it.platform ELSE @])
    ELSE Put(d, it.name, Row(day, it.platform))

RECURSIVE UpsertRows(_, _, _, _)
UpsertRows(d, its, day, k) ==
    IF k = 0 \/ its = <<>> THEN d
    ELSE UpsertRows(UpsertOne(d, Head(its), day), Tail(its), day, k - 1)

\* variant of db_upsert_items: rows of names not in the batch are deleted
db_sync_items(st, its, t, failAt) ==
    LET day == shanghai_date_str(t)
        n == Len(its)
        done == IF failAt = 0 THEN n ELSE failAt - 1
        rows == UpsertRows(st.dramas, its, day, done)
        kept == {its[i].name : i \in 1..n}
        after == [st EXCEPT !.dramas = [m \in DOMAIN rows \cap kept |-> rows[m]],
                            !.last_run_at = IF failAt = 0 THEN isoformat(t) ELSE @]
    IN [store |-> WithConn(st, after, failAt # 0), raised |-> failAt # 0]

db_upsert_items(st, its, t, failAt) ==
    LET day == shanghai_date_str(t)
        n == Len(its)
        done == IF failAt = 0 THEN n ELSE failAt - 1
        after == [st EXCEPT !.dramas = UpsertRows(st.dramas, its, day, done),
                            !.last_run_at = IF failAt = 0 THEN isoformat(t) ELSE @]
    IN [store |-> WithConn(st, after, failAt # 0), raised |-> failAt # 0]

\* variant of CopyRow: SELECT name, first_seen, last_seen, '' FROM dramas
CopyRowBlankInfo(r) ==
    [first_seen |-> r.first_seen, last_seen |-> r.last_seen, last_info |-> <<>>]

\* SELECT name, first_seen, last_seen, last_info FROM dramas
CopyRow(r) ==
    [first_seen |-> r.first_seen, last_seen |-> r.last_seen, last_info |-> r.last_info]

\* statements of the rebuild: 1 CREATE dramas_new (outside the transaction),
\* 2 INSERT OR REPLACE ... SELECT, 3 DROP TABLE dramas, 4 ALTER TABLE ... RENAME
ensure_db_schema(st, failAt) ==
    IF ~st.hasSource
    THEN [store |-> st, raised |-> failAt # 0]
    ELSE LET created == [st EXCEPT !.dramas_new = (failAt # 1) \/ @]
             after == [created EXCEPT
                         !.dramas = [n \in DOMAIN st.dramas |-> CopyRow(st.dramas[n])],
                         !.hasSource = FALSE,
                         !.dramas_new = FALSE]
         IN [store |-> WithConn(created, after, failAt # 0), raised |-> failAt # 0]

\* os.makedirs, sqlite3.connect, ensure_db_schema, CREATE TABLE IF NOT EXISTS meta
open_db(st, failAt) ==
    LET r == ensure_db_schema(st, failAt) IN
    [store |-> [r.store EXCEPT !.dbExists = (~r.raised) \/ @], raised |-> r.raised]

CurStore ==
    [dbExists |-> dbExists, hasSource |-> hasSource, dramas |-> dramas,
     last_run_at |-> last_run_at, dramas_new |-> dramas_new]

SetStore(st) ==
    /\ dbExists' = st.dbExists
    /\ hasSource' = st.hasSource
    /\ dramas' = st.dramas
    /\ last_run_at' = st.last_run_at
    /\ dramas_new' = st.dramas_new

\* statements of a call that may raise
FailPoints(n) == IF ioFaults THEN 0..n ELSE {0}

----------------------------------------------------------------------------
(* The notifier *)

\* the parts joined by "；" in one line of the message
ItemParts(it) ==
    (IF it.platform # <<>> THEN <<it.platform>> ELSE <<>>)
        \o (IF it.online_desc # <<>> THEN <<it.online_desc>> ELSE <<>>)

build_telegram_text(its, t) ==
    [count |-> Len(its),
     lines |-> [i \in 1..Len(its) |-> <<its[i].name, ItemParts(its[i])>>],
     source |-> "MAOYAN_URL",
     time |-> shanghai_datetime_str(t)]

\* api is what the Telegram endpoint answers: "ok" (HTTP 200) or "fail"
send_telegram_message(cfg, text, api) ==
    IF cfg.bot_token = "" \/ cfg.chat_id = "" THEN "config"
    ELSE IF api = "ok" THEN "ok" ELSE "send"

----------------------------------------------------------------------------
(* Inputs *)

ArgsSet == [dry_run : BOOLEAN, no_telegram : BOOLEAN]

TgEnvs ==
    {[bot_token |-> "tok", chat_id |-> "42"],
     [bot_token |-> "", chat_id |-> "42"],
     [bot_token |-> "tok", chat_id |-> ""]}

TopNEnvs ==
    {[kind |-> "unset", n |-> 0], [kind |-> "text", n |-> 0]}
        \cup {[kind |-> "int", n |-> k] : k \in {0, 1, TopNMax, TopNMax + 1}}

NameTexts == {NameA, NameB}
InfoTexts == {<<>>, <<"Q", SP, ON, FD>>}

PairSeqs == UNION {[1..k -> NameTexts \X InfoTexts] : k \in 0..MaxPairs}

PageOf(ps) ==
    [i \in 1..(2 * Len(ps)) |->
        IF i % 2 = 1
        THEN [cls |-> "name", text |-> ps[(i + 1) \div 2][1]]
        ELSE [cls |-> "info", text |-> ps[i \div 2][2]]]

OddPages ==
    {<<[cls |-> "other", text |-> <<"x">>]>>,
     <<[cls |-> "name", text |-> NameA], [cls |-> "name", text |-> <<SP, "B", SP>>]>>,
     <<[cls |-> "name", text |-> <<SP>>], [cls |-> "info", text |-> <<"P", SP, ON, FD>>],
       [cls |-> "name", text |-> NameA], [cls |-> "info", text |-> <<"Q", ON, D8>>]>>}

Pages == {PageOf(ps) : ps \in PairSeqs} \cup OddPages

\* a store written by the release that still had the column "source"
LegacyRow(info) ==
    [first_seen |-> 0 - 1, last_seen |-> 0 - 1, last_info |-> info,
     source |-> "MAOYAN_URL"]

EmptyTable == [n \in {} |-> Row(0, <<>>)]

LegacyStores ==
    {[dbExists |-> TRUE, hasSource |-> TRUE, dramas |-> d, last_run_at |-> isoformat(0),
      dramas_new |-> FALSE] :
        d \in {EmptyTable, Put(EmptyTable, NameA, LegacyRow(PlatP))}}

NoStore ==
    [dbExists |-> FALSE, hasSource |-> FALSE, dramas |-> EmptyTable,
     last_run_at |-> NoValue, dramas_new |-> FALSE]

\* what one attempt of urlopen / read can raise
FetchErrors == {"URLError", "TimeoutError"}

NoError == [kind |-> "", stmt |-> 0]

\* the store driver's record of a call: the operation, its records, what it
\* returned, whether the table was empty before it, and for a find_new made right
\* after another call with the same records, that call and what it returned
NoCall == [op |-> "none", items |-> <<>>, result |-> <<>>, empty |-> TRUE,
           after |-> "", first |-> <<>>]

----------------------------------------------------------------------------
(* main(): one run after another against the same store file *)

InitRun ==
    /\ \E st \in {NoStore} \cup LegacyStores :
          /\ dbExists = st.dbExists
          /\ hasSource = st.hasSource
          /\ dramas = st.dramas
          /\ last_run_at = st.last_run_at
          /\ dramas_new = st.dramas_new
          /\ pre = st
    /\ clock = 0
    /\ pc \in {"idle", "closed"}
    /\ args = [dry_run |-> FALSE, no_telegram |-> FALSE]
    /\ tg = [bot_token |-> "", chat_id |-> ""]
    /\ attempt = 0
    /\ html = <<>>
    /\ items = <<>>
    /\ dt = 0
    /\ new_items = <<>>
    /\ exitCode = 0
    /\ err = NoError
    /\ rendered = 0
    /\ handed = <<>>
    /\ delivered = <<>>
    /\ upserts = 0
    /\ fetchLog = <<>>
    /\ last_error = NoValue
    /\ alerted = {}
    /\ call = NoCall

Init == InitRun /\ pc = "idle" /\ ioFaults = FALSE

InitFault == InitRun /\ pc = "idle" /\ ioFaults = TRUE

\* an exception reaches the top level: "[ERR] ..." and SystemExit(1)
Raise(kind) == pc' = "done" /\ exitCode' = 1 /\ err' = [kind |-> kind, stmt |-> 0]

\* a statement on the store raises (sqlite3.Error)
RaiseStore(f) == pc' = "done" /\ exitCode' = 1 /\ err' = [kind |-> "store", stmt |-> f]

\* the names listed in the texts hs
NamesIn(hs) ==
    UNION {{hs[i].lines[j][1] : j \in 1..Len(hs[i].lines)} : i \in 1..Len(hs)}

\* main returns 0
Return0 == pc' = "done" /\ exitCode' = 0 /\ err' = NoError

\* variant of StartRun: main checks the Telegram credentials before anything else
StartRunNeedsCredentials ==
    /\ pc \in {"idle", "done"}
    /\ clock < MaxTime
    /\ \E a \in ArgsSet : args' = a
    /\ \E e \in TgEnvs :
          /\ tg' = e
          /\ IF send_telegram_message(e, <<>>, "ok") = "config"
             THEN Raise("config")
             ELSE pc' = "fetch" /\ exitCode' = Running /\ err' = NoError
    /\ attempt' = 1
    /\ html' = <<>>
    /\ items' = <<>>
    /\ dt' = 0
    /\ new_items' = <<>>
    /\ pre' = CurStore
    /\ rendered' = 0
    /\ handed' = <<>>
    /\ delivered' = <<>>
    /\ upserts' = 0
    /\ fetchLog' = <<>>
    /\ last_error' = NoValue
    /\ UNCHANGED <<storeVars, clock, ioFaults, call, alerted>>

StartRun ==
    /\ pc \in {"idle", "done"}
    /\ clock < MaxTime
    /\ pc' = "fetch"
    /\ \E a \in ArgsSet : args' = a
    /\ \E e \in TgEnvs : tg' = e
    /\ attempt' = 1
    /\ html' = <<>>
    /\ items' = <<>>
    /\ dt' = 0
    /\ new_items' = <<>>
    /\ exitCode' = Running
    /\ err' = NoError
    /\ pre' = CurStore
    /\ rendered' = 0
    /\ handed' = <<>>
    /\ delivered' = <<>>
    /\ upserts' = 0
    /\ fetchLog' = <<>>
    /\ last_error' = NoValue
    /\ UNCHANGED <<storeVars, clock, ioFaults, call, alerted>>

\* fetch_maoyan_html: one attempt returns the page
FetchOk ==
    /\ pc = "fetch"
    /\ \E page \in Pages : html' = page
    /\ attempt' = 0
    /\ fetchLog' = <<>>
    /\ last_error' = NoValue
    /\ pc' = "parse"
    /\ UNCHANGED <<storeVars, clock, ioFaults, args, tg, items, dt, new_items,
                   exitCode, err, pre, rendered, handed, delivered, upserts, call,
                   alerted>>

\* the sleep after a failed attempt: none after the last one
Backoff(k, retries) == IF k < retries THEN BaseDelay * k ELSE 0

\* variant of FetchFail: for attempt in range(1, retries)
FetchFailShort ==
    /\ pc = "fetch"
    /\ \E e \in FetchErrors :
          /\ last_error' = e
          /\ fetchLog' = Append(fetchLog, [error |-> e,
                                           slept |-> Backoff(attempt, Retries - 1)])
    /\ IF attempt < Retries - 1
       THEN attempt' = attempt + 1 /\ UNCHANGED <<pc, exitCode, err>>
       ELSE Raise("fetch") /\ UNCHANGED attempt
    /\ UNCHANGED <<storeVars, clock, ioFaults, args, tg, html, items, dt, new_items,
                   pre, rendered, handed, delivered, upserts, call, alerted>>

\* fetch_maoyan_html: one attempt raises URLError / TimeoutError / OSError; the
\* RuntimeError raised after the last one carries last_error
FetchFail ==
    /\ pc = "fetch"
    /\ \E e \in FetchErrors :
          /\ last_error' = e
          /\ fetchLog' = Append(fetchLog, [error |-> e,
                                           slept |-> Backoff(attempt, Retries)])
    /\ IF attempt < Retries
       THEN attempt' = attempt + 1 /\ UNCHANGED <<pc, exitCode, err>>
       ELSE Raise("fetch") /\ UNCHANGED attempt
    /\ UNCHANGED <<storeVars, clock, ioFaults, args, tg, html, items, dt, new_items,
                   pre, rendered, handed, delivered, upserts, call, alerted>>

\* variant of ExtractFail: no name found is an empty list, not an error
ExtractNothing ==
    /\ pc = "parse"
    /\ ParseRaises(html)
    /\ items' = <<>>
    /\ \E t \in (clock + 1)..MaxTime : dt' = t /\ clock' = t
    /\ html' = <<>>
    /\ pc' = "open"
    /\ UNCHANGED <<storeVars, ioFaults, args, tg, attempt, new_items, exitCode, err,
                   pre, rendered, handed, delivered, upserts, call, fetchLog, last_error, alerted>>

\* parse_drama_items raises: no name was found
ExtractFail ==
    /\ pc = "parse"
    /\ ParseRaises(html)
    /\ Raise("parse")
    /\ html' = <<>>
    /\ UNCHANGED <<storeVars, clock, ioFaults, args, tg, attempt, items, dt, new_items,
                   pre, rendered, handed, delivered, upserts, call, fetchLog, last_error, alerted>>

\* get_top_n_from_env raises
TopNFail ==
    /\ pc = "parse"
    /\ ~ParseRaises(html)
    /\ \E raw \in TopNEnvs : TopNRaises(raw)
    /\ Raise("topn")
    /\ html' = <<>>
    /\ UNCHANGED <<storeVars, clock, ioFaults, args, tg, attempt, items, dt, new_items,
                   pre, rendered, handed, delivered, upserts, call, fetchLog, last_error, alerted>>

\* items = parse_drama_items(html)[:top_n]; dt = now_shanghai()
ExtractOk ==
    /\ pc = "parse"
    /\ ~ParseRaises(html)
    /\ \E raw \in TopNEnvs :
          /\ ~TopNRaises(raw)
          /\ items' = Truncate(parse_drama_items(html), get_top_n_from_env(raw))
    /\ \E t \in (clock + 1)..MaxTime : dt' = t /\ clock' = t
    /\ html' = <<>>
    /\ pc' = "open"
    /\ UNCHANGED <<storeVars, ioFaults, args, tg, attempt, new_items, exitCode, err,
                   pre, rendered, handed, delivered, upserts, call, fetchLog, last_error, alerted>>

\* --dry-run and no store file: report and return 0
OpenDryNoStore ==
    /\ pc = "open"
    /\ args.dry_run /\ ~dbExists
    /\ Return0
    /\ UNCHANGED <<storeVars, clock, ioFaults, args, tg, attempt, html, items, dt,
                   new_items, pre, rendered, handed, delivered, upserts, call, fetchLog, last_error, alerted>>

\* variant of OpenReadonly: --dry-run opens the store as a real run does
OpenReadWrite ==
    /\ pc = "open"
    /\ args.dry_run /\ dbExists
    /\ SetStore(open_db(CurStore, 0).store)
    /\ pc' = "check"
    /\ UNCHANGED <<clock, ioFaults, args, tg, attempt, html, items, dt, new_items,
                   exitCode, err, pre, rendered, handed, delivered, upserts, call, fetchLog, last_error, alerted>>

\* open_db_readonly
OpenReadonly ==
    /\ pc = "open"
    /\ args.dry_run /\ dbExists
    /\ pc' = "check"
    /\ UNCHANGED <<storeVars, clock, ioFaults, args, tg, attempt, html, items, dt,
                   new_items, exitCode, err, pre, rendered, handed, delivered, upserts,
                   call, fetchLog, last_error, alerted>>

\* open_db
OpenDb ==
    /\ pc = "open"
    /\ ~args.dry_run
    /\ \E f \in FailPoints(IF hasSource THEN 4 ELSE 1) :
          LET r == open_db(CurStore, f) IN
          /\ SetStore(r.store)
          /\ IF r.raised THEN RaiseStore(f)
                         ELSE pc' = "check" /\ UNCHANGED <<exitCode, err>>
    /\ UNCHANGED <<clock, ioFaults, args, tg, attempt, html, items, dt, new_items, pre,
                   rendered, handed, delivered, upserts, call, fetchLog, last_error, alerted>>

\* db_is_empty and --dry-run: report and return 0
BaselineDry ==
    /\ pc = "check"
    /\ db_is_empty(dramas)
    /\ args.dry_run
    /\ Return0
    /\ UNCHANGED <<storeVars, clock, ioFaults, args, tg, attempt, html, items, dt,
                   new_items, pre, rendered, handed, delivered, upserts, call, fetchLog, last_error, alerted>>

\* variant of Baseline: the first run also announces what it inserted
BaselineAndNotify ==
    /\ pc = "check"
    /\ db_is_empty(dramas)
    /\ ~args.dry_run
    /\ LET r == db_insert_baseline(CurStore, items, dt, 0)
           text == build_telegram_text(items, dt)
       IN /\ SetStore(r.store)
          /\ rendered' = rendered + 1
          /\ handed' = Append(handed, text)
          /\ delivered' = Append(delivered, text)
          /\ Return0
    /\ UNCHANGED <<clock, ioFaults, args, tg, attempt, html, items, dt, new_items, pre,
                   upserts, call, fetchLog, last_error, alerted>>

\* db_is_empty: db_insert_baseline and return 0
Baseline ==
    /\ pc = "check"
    /\ db_is_empty(dramas)
    /\ ~args.dry_run
    /\ \E f \in FailPoints(Len(items) + 1) :
          LET r == db_insert_baseline(CurStore, items, dt, f) IN
          /\ SetStore(r.store)
          /\ IF r.raised THEN RaiseStore(f) ELSE Return0
    /\ UNCHANGED <<clock, ioFaults, args, tg, attempt, html, items, dt, new_items, pre,
                   rendered, handed, delivered, upserts, call, fetchLog, last_error, alerted>>

\* new_items = db_find_new_items(conn, items)
FindNew ==
    /\ pc = "check"
    /\ ~db_is_empty(dramas)
    /\ LET r == db_find_new_items(CurStore, items) IN
          /\ SetStore(r.store)
          /\ new_items' = r.result
    /\ pc' = "delta"
    /\ UNCHANGED <<clock, ioFaults, args, tg, attempt, html, items, dt, exitCode, err,
                   pre, rendered, handed, delivered, upserts, call, fetchLog, last_error, alerted>>

\* --dry-run on the delta path: print the would-be message and return 0
DeltaDry ==
    /\ pc = "delta"
    /\ args.dry_run
    /\ rendered' = IF new_items # <<>> THEN rendered + 1 ELSE rendered
    /\ Return0
    /\ UNCHANGED <<storeVars, clock, ioFaults, args, tg, attempt, html, items, dt,
                   new_items, pre, handed, delivered, upserts, call, fetchLog, last_error, alerted>>

\* variant of Notify: a failed send is logged and the run goes on to the upsert
NotifyAndCarryOn ==
    /\ pc = "delta"
    /\ ~args.dry_run
    /\ new_items # <<>> /\ ~args.no_telegram
    /\ LET text == build_telegram_text(new_items, dt) IN
          /\ rendered' = rendered + 1
          /\ handed' = Append(handed, text)
          /\ \E api \in {"ok", "fail"} :
                LET outcome == send_telegram_message(tg, text, api) IN
                /\ delivered' = IF outcome = "ok" THEN Append(delivered, text)
                                                 ELSE delivered
                /\ pc' = "upsert"
                /\ UNCHANGED <<exitCode, err>>
    /\ UNCHANGED <<storeVars, clock, ioFaults, args, tg, attempt, html, items, dt,
                   new_items, pre, upserts, call, fetchLog, last_error, alerted>>

\* variant of Notify: the run returns 0 as soon as the message is sent
NotifyThenReturn ==
    /\ pc = "delta"
    /\ ~args.dry_run
    /\ new_items # <<>> /\ ~args.no_telegram
    /\ LET text == build_telegram_text(new_items, dt) IN
          /\ rendered' = rendered + 1
          /\ handed' = Append(handed, text)
          /\ \E api \in {"ok", "fail"} :
                LET outcome == send_telegram_message(tg, text, api) IN
                IF outcome = "ok"
                THEN /\ delivered' = Append(delivered, text)
                     /\ Return0
                     /\ alerted' = alerted \cup NamesIn(<<text>>)
                ELSE /\ Raise(outcome)
                     /\ UNCHANGED <<delivered, alerted>>
    /\ UNCHANGED <<storeVars, clock, ioFaults, args, tg, attempt, html, items, dt,
                   new_items, pre, upserts, call, fetchLog, last_error>>

\* variant of Notify: when the send fails the new records are stored all the same,
\* then the error is raised
NotifyStoreOnFailure ==
    /\ pc = "delta"
    /\ ~args.dry_run
    /\ new_items # <<>> /\ ~args.no_telegram
    /\ LET text == build_telegram_text(new_items, dt) IN
          /\ rendered' = rendered + 1
          /\ handed' = Append(handed, text)
          /\ \E api \in {"ok", "fail"} :
                LET outcome == send_telegram_message(tg, text, api) IN
                IF outcome = "ok"
                THEN /\ delivered' = Append(delivered, text)
                     /\ pc' = "upsert"
                     /\ UNCHANGED <<exitCode, err, storeVars, upserts>>
                ELSE /\ Raise(outcome)
                     /\ SetStore(db_upsert_items(CurStore, new_items, dt, 0).store)
                     /\ upserts' = upserts + 1
                     /\ UNCHANGED delivered
    /\ UNCHANGED <<clock, ioFaults, args, tg, attempt, html, items, dt,
                   new_items, pre, call, fetchLog, last_error, alerted>>

\* new_items and not --no-telegram: build the text and send it
Notify ==
    /\ pc = "delta"
    /\ ~args.dry_run
    /\ new_items # <<>> /\ ~args.no_telegram
    /\ LET text == build_telegram_text(new_items, dt) IN
          /\ rendered' = rendered + 1
          /\ handed' = Append(handed, text)
          /\ \E api \in {"ok", "fail"} :
                LET outcome == send_telegram_message(tg, text, api) IN
                IF outcome = "ok"
                THEN /\ delivered' = Append(delivered, text)
                     /\ pc' = "upsert"
                     /\ UNCHANGED <<exitCode, err>>
                ELSE /\ Raise(outcome)
                     /\ UNCHANGED delivered
    /\ UNCHANGED <<storeVars, clock, ioFaults, args, tg, attempt, html, items, dt,
                   new_items, pre, upserts, call, fetchLog, last_error, alerted>>

\* variant of SkipNotify: --no-telegram with new records returns at once
SkipNotifyAndReturn ==
    /\ pc = "delta"
    /\ ~args.dry_run
    /\ ~(new_items # <<>> /\ ~args.no_telegram)
    /\ IF new_items # <<>>
       THEN Return0
       ELSE pc' = "upsert" /\ UNCHANGED <<exitCode, err>>
    /\ UNCHANGED <<storeVars, clock, ioFaults, args, tg, attempt, html, items, dt,
                   new_items, pre, rendered, handed, delivered, upserts,
                   call, fetchLog, last_error, alerted>>

\* nothing new, or --no-telegram: go on to the upsert
SkipNotify ==
    /\ pc = "delta"
    /\ ~args.dry_run
    /\ ~(new_items # <<>> /\ ~args.no_telegram)
    /\ pc' = "upsert"
    /\ UNCHANGED <<storeVars, clock, ioFaults, args, tg, attempt, html, items, dt,
                   new_items, exitCode, err, pre, rendered, handed, delivered, upserts,
                   call, fetchLog, last_error, alerted>>

\* variant of Upsert: db_upsert_items(conn, new_items, dt)
UpsertNewOnly ==
    /\ pc = "upsert"
    /\ \E f \in FailPoints(Len(new_items) + 1) :
          LET r == db_upsert_items(CurStore, new_items, dt, f) IN
          /\ SetStore(r.store)
          /\ IF r.raised THEN RaiseStore(f) /\ UNCHANGED alerted
                         ELSE Return0 /\ alerted' = alerted \cup NamesIn(handed)
    /\ upserts' = upserts + 1
    /\ UNCHANGED <<clock, ioFaults, args, tg, attempt, html, items, dt, new_items, pre,
                   rendered, handed, delivered, call, fetchLog, last_error>>

\* db_upsert_items and return 0
Upsert ==
    /\ pc = "upsert"
    /\ \E f \in FailPoints(Len(items) + 1) :
          LET r == db_upsert_items(CurStore, items, dt, f) IN
          /\ SetStore(r.store)
          /\ IF r.raised THEN RaiseStore(f) /\ UNCHANGED alerted
                         ELSE Return0 /\ alerted' = alerted \cup NamesIn(handed)
    /\ upserts' = upserts + 1
    /\ UNCHANGED <<clock, ioFaults, args, tg, attempt, html, items, dt, new_items, pre,
                   rendered, handed, delivered, call, fetchLog, last_error>>

Next ==
    \/ StartRun
    \/ FetchOk
    \/ FetchFail
    \/ ExtractFail
    \/ TopNFail
    \/ ExtractOk
    \/ OpenDryNoStore
    \/ OpenReadonly
    \/ OpenDb
    \/ BaselineDry
    \/ Baseline
    \/ FindNew
    \/ DeltaDry
    \/ Notify
    \/ SkipNotify
    \/ Upsert

Spec == Init /\ [][Next]_vars

SpecFault == InitFault /\ [][Next]_vars

----------------------------------------------------------------------------
(* The store's operations called in any order with any records: what a     *)
(* caller of open_db, db_insert_baseline, db_find_new_items and            *)
(* db_upsert_items can do with one store file.                             *)

HRecords ==
    [name : {NameA, NameB}, platform : {<<>>, PlatP, PlatQ},
     is_first_day : {FALSE}, online_desc : {<<>>}]

HBatches == UNION {[1..k -> HRecords] : k \in 0..MaxBatch}

InitStore == InitRun /\ pc = "closed" /\ ioFaults = FALSE

\* conn = open_db(db_path)
HOpen ==
    /\ pc = "closed"
    /\ call = NoCall
    /\ LET r == open_db(CurStore, 0) IN SetStore(r.store) /\ pre' = r.store
    /\ pc' = "open"
    /\ UNCHANGED <<clock, ioFaults, runVars, call>>

\* conn.close()
HClose ==
    /\ pc = "open"
    /\ call = NoCall
    /\ pc' = "closed"
    /\ UNCHANGED <<storeVars, clock, ioFaults, runVars, pre, call>>

\* db_insert_baseline(conn, its, t)
HInsertBaseline ==
    /\ pc = "open"
    /\ call = NoCall
    /\ \E its \in HBatches, t \in (IF clock = 0 THEN 1 ELSE clock)..MaxTime :
          LET r == db_insert_baseline(CurStore, its, t, 0) IN
          /\ SetStore(r.store)
          /\ clock' = t
          /\ call' = [op |-> "insert_baseline", items |-> its, result |-> <<>>,
                       empty |-> db_is_empty(dramas), after |-> "", first |-> <<>>]
    /\ pre' = CurStore
    /\ UNCHANGED <<pc, ioFaults, runVars>>

\* db_find_new_items(conn, its)
HFindNew ==
    /\ pc = "open"
    /\ call = NoCall
    /\ \E its \in HBatches :
          LET r == db_find_new_items(CurStore, its) IN
          /\ SetStore(r.store)
          /\ call' = [op |-> "find_new", items |-> its, result |-> r.result,
                       empty |-> db_is_empty(dramas), after |-> "", first |-> <<>>]
    /\ pre' = CurStore
    /\ UNCHANGED <<pc, clock, ioFaults, runVars>>

\* db_find_new_items(conn, its) right after a call made with the same its
HFindNewSame ==
    /\ pc = "open"
    /\ call.op \in {"insert_baseline", "upsert", "find_new"}
    /\ call.after = ""
    /\ LET r == db_find_new_items(CurStore, call.items) IN
          /\ SetStore(r.store)
          /\ call' = [op |-> "find_new", items |-> call.items, result |-> r.result,
                       empty |-> call.empty, after |-> call.op, first |-> call.result]
    /\ UNCHANGED <<pc, clock, ioFaults, runVars, pre>>

\* db_upsert_items(conn, its, t)
HUpsert ==
    /\ pc = "open"
    /\ call = NoCall
    /\ \E its \in HBatches, t \in (IF clock = 0 THEN 1 ELSE clock)..MaxTime :
          LET r == db_upsert_items(CurStore, its, t, 0) IN
          /\ SetStore(r.store)
          /\ clock' = t
          /\ call' = [op |-> "upsert", items |-> its, result |-> <<>>,
                       empty |-> db_is_empty(dramas), after |-> "", first |-> <<>>]
    /\ pre' = CurStore
    /\ UNCHANGED <<pc, ioFaults, runVars>>

\* the caller drops what the last call returned
HForget ==
    /\ pc = "open"
    /\ call # NoCall
    /\ call' = NoCall
    /\ pre' = CurStore
    /\ UNCHANGED <<storeVars, pc, clock, ioFaults, runVars>>

NextStore ==
    \/ HOpen
    \/ HClose
    \/ HInsertBaseline
    \/ HFindNew
    \/ HFindNewSame
    \/ HUpsert
    \/ HForget

SpecStore == InitStore /\ [][NextStore]_vars

----------------------------------------------------------------------------
(* parse_drama_items applied to any page of name and info elements, in any *)
(* order and number, with blank texts among them                           *)

ExtractElements ==
    {[cls |-> "name", text |-> t] : t \in {NameA, <<SP, "B", SP>>, <<SP>>}}
    \cup {[cls |-> "info", text |-> t] :
              t \in {<<>>, <<"P", SP, ON, FD>>, <<"Q", ON, D8>>}}

ExtractPages == UNION {[1..k -> ExtractElements] : k \in 0..MaxElems}

InitExtract ==
    /\ dbExists = NoStore.dbExists
    /\ hasSource = NoStore.hasSource
    /\ dramas = NoStore.dramas
    /\ last_run_at = NoStore.last_run_at
    /\ dramas_new = NoStore.dramas_new
    /\ pre = NoStore
    /\ clock = 0
    /\ ioFaults = FALSE
    /\ pc = "parse"
    /\ args = [dry_run |-> FALSE, no_telegram |-> FALSE]
    /\ tg = [bot_token |-> "", chat_id |-> ""]
    /\ attempt = 0
    /\ html \in ExtractPages
    /\ items = <<>>
    /\ dt = 0
    /\ new_items = <<>>
    /\ exitCode = Running
    /\ err = NoError
    /\ rendered = 0
    /\ handed = <<>>
    /\ delivered = <<>>
    /\ upserts = 0
    /\ fetchLog = <<>>
    /\ last_error = NoValue
    /\ alerted = {}
    /\ call = NoCall

\* parse_drama_items(html) returns the items
ParseItems ==
    /\ pc = "parse"
    /\ ~ParseRaises(html)
    /\ items' = parse_drama_items(html)
    /\ pc' = "parsed"
    /\ UNCHANGED <<storeVars, clock, ioFaults, args, tg, attempt, html, dt, new_items,
                   exitCode, err, pre, rendered, handed, delivered, upserts, call,
                   fetchLog, last_error, alerted>>

\* parse_drama_items(html) raises: no name on the page
ParseNoNames ==
    /\ pc = "parse"
    /\ ParseRaises(html)
    /\ Raise("parse")
    /\ UNCHANGED <<storeVars, clock, ioFaults, args, tg, attempt, html, items, dt,
                   new_items, pre, rendered, handed, delivered, upserts, call,
                   fetchLog, last_error, alerted>>

NextExtract ==
    \/ ParseItems
    \/ ParseNoNames

SpecExtract == InitExtract /\ [][NextExtract]_vars

----------------------------------------------------------------------------
(* Properties *)

DayOf(t) == shanghai_date_str(t)

\* the run went down the notifying branch of the delta path
NotifyingRun ==
    /\ pc = "done"
    /\ ~args.dry_run
    /\ new_items # <<>>
    /\ ~args.no_telegram

\* C1 as stated: a non-dry run on the delta path with new records and notification
\* not suppressed performs the upsert exactly once before it ends, whether the
\* hand-off to the sender succeeded or failed.
C1_UpsertOnceWhateverTheSend == NotifyingRun => upserts = 1

\* C1 amended: such a run hands the message to the sender exactly once; when the
\* hand-off succeeds the upsert is performed exactly once and the run returns 0;
\* when it fails (sender error or missing credentials) the run ends with a non-zero
\* exit and no upsert is performed.  No run performs more than one upsert.
C1_UpsertOnceIffSent ==
    /\ upserts <= 1
    /\ NotifyingRun =>
          /\ Len(handed) = 1
          /\ delivered # <<>> => upserts = 1 /\ exitCode = 0
          /\ delivered = <<>> => upserts = 0 /\ exitCode # 0

C1_Witness ==
    /\ NotifyingRun
    /\ delivered # <<>>
    /\ upserts = 1
    /\ \A i \in 1..Len(items) : items[i].name \in DOMAIN dramas

\* C2: a run that finds the ledger empty never invokes the formatter and hands
\* nothing to the sender, whatever the flags and the records; when it is not a dry
\* run it ends with exit code 0 and the ledger holds exactly the current records,
\* each with first_seen = last_seen = today.
C2_FirstRunSuppression ==
    (pc # "idle" /\ db_is_empty(pre.dramas)) =>
        /\ rendered = 0
        /\ handed = <<>>
        /\ (pc = "done" /\ dt # 0 /\ ~args.dry_run) =>
              /\ exitCode = 0
              /\ DOMAIN dramas = {items[i].name : i \in 1..Len(items)}
              /\ \A n \in DOMAIN dramas :
                    /\ dramas[n].first_seen = DayOf(dt)
                    /\ dramas[n].last_seen = DayOf(dt)

C2_Witness ==
    /\ pc = "done"
    /\ db_is_empty(pre.dramas)
    /\ ~args.dry_run
    /\ tg.bot_token # "" /\ tg.chat_id # "" /\ ~args.no_telegram
    /\ Len(items) = 2
    /\ Cardinality(DOMAIN dramas) = 2
    /\ exitCode = 0

\* C3: a dry run changes nothing durable and sends nothing: on each of its paths
\* the store (file, schema, ledger entries, last_run_at) is as it was before the
\* run and nothing is handed to the sender; when the store file does not exist it
\* is not created and the run returns 0.
C3_DryRunFrame ==
    (pc # "idle" /\ args.dry_run) =>
        /\ CurStore = pre
        /\ handed = <<>>
        /\ delivered = <<>>
        /\ (pc = "done" /\ dt # 0 /\ ~pre.dbExists) => (~dbExists /\ exitCode = 0)

C3_Witness ==
    /\ pc = "done"
    /\ args.dry_run
    /\ ~args.no_telegram
    /\ new_items # <<>>
    /\ rendered = 1
    /\ exitCode = 0

\* C4: a run whose last fetch attempt fails, or whose page holds no name, ends at
\* that step with a non-zero exit: the store is untouched since the run began (no
\* file created, ledger and last_run_at unchanged) and nothing is sent.
C4_AbortBeforeStore ==
    [][ ( \/ (pc = "fetch" /\ attempt = Retries /\ attempt' = Retries)
          \/ (pc = "parse" /\ ParseRaises(html)) )
        => ( /\ pc' = "done"
             /\ exitCode' # 0
             /\ CurStore = pre
             /\ UNCHANGED storeVars
             /\ handed' = <<>>
             /\ delivered' = <<>> ) ]_vars

C4_Witness ==
    /\ pc = "done"
    /\ err.kind = "fetch"
    /\ attempt = Retries
    /\ exitCode = 1
    /\ ~dbExists

\* C5: find_new returns exactly the input records whose name has no entry in the
\* ledger, in the order of the input.
C5_FindNewIsOrderedDifference ==
    call.op = "find_new" =>
        call.result = SelectSeq(call.items, LAMBDA it : it.name \notin DOMAIN dramas)

C5_Witness ==
    /\ call.op = "find_new"
    /\ DOMAIN dramas = {NameA}
    /\ Len(call.items) = 2
    /\ call.items[1].name = NameA
    /\ call.items[2].name = NameB
    /\ call.result = <<call.items[2]>>

\* C6: starting from an empty ledger, insert_baseline(records, date) followed
\* immediately by find_new(records) with the same records returns the empty
\* sequence, also when some records have an empty category.
C6_BaselineThenFindNewIsEmpty ==
    (call.op = "find_new" /\ call.after = "insert_baseline" /\ call.empty)
        => call.result = <<>>

C6_Witness ==
    /\ call.op = "find_new"
    /\ call.after = "insert_baseline"
    /\ call.empty
    /\ Len(call.items) = 2
    /\ call.items[1].name # call.items[2].name
    /\ call.items[1].platform = <<>>
    /\ call.result = <<>>

\* C7: find_new is a pure read: after it the store (ledger entries, last_run_at)
\* is what it was before it, and a second find_new made right after the first with
\* the same records returns what the first returned.
C7_FindNewPureRead ==
    (call.op = "find_new" /\ call.after \in {"", "find_new"}) =>
        /\ CurStore = pre
        /\ call.after = "find_new" => call.result = call.first

C7_Witness ==
    /\ call.op = "find_new"
    /\ call.after = "find_new"
    /\ ~db_is_empty(dramas)
    /\ Len(call.items) = 2
    /\ Len(call.result) = 1
    /\ call.first = call.result

\* a step of the store driver that is a call of op
IsCallOf(op) == call.op = "none" /\ call'.op = op

\* C8: an entry, once in the ledger, stays in it with the first_seen it has, under
\* insert_baseline, upsert and the schema migration; insert_baseline leaves an
\* existing entry as it is, and upsert changes no column of an existing entry
\* other than last_seen and last_info.
C8_FirstSeenImmutable ==
    [][ \A n \in DOMAIN dramas :
          /\ n \in DOMAIN dramas'
          /\ dramas'[n].first_seen = dramas[n].first_seen
          /\ IsCallOf("insert_baseline") => dramas'[n] = dramas[n]
          /\ IsCallOf("upsert") => DOMAIN dramas'[n] = DOMAIN dramas[n] ]_vars

C8_Witness ==
    /\ call.op = "insert_baseline"
    /\ Len(call.items) = 1
    /\ call.items[1].name \in DOMAIN pre.dramas
    /\ call.items[1].platform # pre.dramas[call.items[1].name].last_info
    /\ pre.last_run_at # last_run_at
    /\ dramas = pre.dramas

Max(S) == CHOOSE x \in S : \A y \in S : y <= x

\* C9: a last_info that is not empty never becomes empty, whatever the store
\* operation; an upsert leaves the last_info of an existing entry as it was when
\* the incoming platform is empty and sets it to the incoming platform when that
\* is not empty (with several records of one name, the last non-empty one).
C9_CategoryRetention ==
    [][ \A n \in DOMAIN dramas :
          /\ dramas[n].last_info # <<>> =>
                (n \in DOMAIN dramas' /\ dramas'[n].last_info # <<>>)
          /\ IsCallOf("upsert") =>
                LET given == {i \in 1..Len(call'.items) :
                                /\ call'.items[i].name = n
                                /\ call'.items[i].platform # <<>>}
                IN dramas'[n].last_info =
                      IF given = {} THEN dramas[n].last_info
                                    ELSE call'.items[Max(given)].platform ]_vars

C9_Witness ==
    /\ call.op = "upsert"
    /\ Len(call.items) = 1
    /\ call.items[1].platform = <<>>
    /\ call.items[1].name \in DOMAIN pre.dramas
    /\ pre.dramas[call.items[1].name].last_info = PlatP
    /\ dramas[call.items[1].name].last_info = PlatP
    /\ dramas[call.items[1].name].last_seen # pre.dramas[call.items[1].name].last_seen

\* C10: a db_upsert_items call in which a statement raises (after some records
\* were written, or at the write of last_run_at) leaves the ledger and last_run_at
\* exactly as they were before the call; a call in which nothing raises updates
\* every record of the call and last_run_at.  No call leaves part of its batch.
C10_UpsertAtomic ==
    [][ pc = "upsert" =>
          IF exitCode' # 0
          THEN UNCHANGED storeVars
          ELSE /\ last_run_at' = isoformat(dt)
               /\ \A i \in 1..Len(items) :
                     /\ items[i].name \in DOMAIN dramas'
                     /\ dramas'[items[i].name].last_seen = DayOf(dt) ]_vars

C10_Witness ==
    /\ pc = "done"
    /\ upserts = 1
    /\ err = [kind |-> "store", stmt |-> 2]
    /\ Len(items) = 2
    /\ new_items = <<items[1]>>
    /\ items[1].name \notin DOMAIN dramas
    /\ dramas[items[2].name].last_seen # DayOf(dt)
    /\ last_run_at # isoformat(dt)

----------------------------------------------------------------------------
(* C11 *)

\* the names of the records its
NamesOf(its) == {its[i].name : i \in 1..Len(its)}

\* a run that went down the delta path without --dry-run and returned 0
DeltaRunReturned0 ==
    /\ pc = "done" /\ exitCode = 0 /\ dt # 0
    /\ ~args.dry_run
    /\ ~db_is_empty(pre.dramas)

\* C11: after a non-dry run on the delta path that returned 0, every current
\* record, new or not, has an entry in the ledger whose last_seen is the date of
\* the run, and the entries of the new records also have that date as first_seen.
C11_AllCurrentSeenToday ==
    DeltaRunReturned0 =>
        \A n \in NamesOf(items) :
            /\ n \in DOMAIN dramas
            /\ dramas[n].last_seen = DayOf(dt)
            /\ (n \notin DOMAIN pre.dramas => dramas[n].first_seen = DayOf(dt))

\* a run on the second day with one known and one new record returned 0
C11_Witness ==
    /\ DeltaRunReturned0
    /\ Len(items) = 2 /\ Len(new_items) = 1
    /\ DayOf(dt) > 0
    /\ \E n \in NamesOf(items) :
          n \in DOMAIN pre.dramas /\ pre.dramas[n].last_seen < DayOf(dt)

----------------------------------------------------------------------------
(* C12 *)

\* C12: fetch_maoyan_html makes at most Retries attempts.  A step of the loop
\* either returns the page (and the loop is over), or is failed attempt k < Retries,
\* after which it sleeps k * BaseDelay and makes attempt k + 1, or is failed attempt
\* Retries, after which it does not sleep and raises an error carrying the error
\* of that last attempt.  Every step ends the loop or increases the attempt
\* number, which never exceeds Retries, so the loop terminates.
C12_BoundedRetries ==
    [][pc = "fetch" =>
          /\ attempt \in 1..Retries
          /\ Len(fetchLog) = attempt - 1
          /\ \/ /\ pc' = "parse"
                /\ html' \in Pages
                /\ exitCode' = Running
             \/ /\ pc' = "fetch"
                /\ attempt < Retries
                /\ attempt' = attempt + 1
                /\ Len(fetchLog') = attempt
                /\ fetchLog'[attempt].error \in FetchErrors
                /\ fetchLog'[attempt].slept = attempt * BaseDelay
                /\ SubSeq(fetchLog', 1, attempt - 1) = fetchLog
             \/ /\ pc' = "done"
                /\ attempt = Retries
                /\ exitCode' # 0 /\ err'.kind = "fetch"
                /\ Len(fetchLog') = Retries
                /\ fetchLog'[Retries].slept = 0
                /\ last_error' = fetchLog'[Retries].error
                /\ SubSeq(fetchLog', 1, Retries - 1) = fetchLog]_vars

\* three attempts failed, the last one differently from the one before; the loop
\* slept after the first and the second only
C12_Witness ==
    /\ pc = "done" /\ err.kind = "fetch"
    /\ Len(fetchLog) = Retries
    /\ fetchLog[1].slept = BaseDelay /\ fetchLog[2].slept = 2 * BaseDelay
    /\ fetchLog[3].slept = 0
    /\ fetchLog[2].error # fetchLog[3].error
    /\ last_error = fetchLog[3].error

----------------------------------------------------------------------------
(* C13 *)

\* TG_BOT_TOKEN or TG_CHAT_ID is absent
CredentialsMissing == tg.bot_token = "" \/ tg.chat_id = ""

\* the run reached the point where main would send: delta path, new records,
\* neither --dry-run nor --no-telegram
SendAttempted ==
    /\ ~args.dry_run /\ ~args.no_telegram
    /\ ~db_is_empty(pre.dramas)
    /\ new_items # <<>>

\* C13: a run without credentials whose fetch and extraction succeeded returns 0
\* on the baseline path, on every dry-run path, on the delta path with nothing new
\* and on the delta path with --no-telegram; it ends with a non-zero exit, for
\* the missing configuration, exactly when it is a non-dry delta run with new
\* records and notification not suppressed.
C13_CredentialsNeededOnlyToSend ==
    (pc = "done" /\ CredentialsMissing /\ err.kind \notin {"fetch", "parse", "topn"}) =>
        IF SendAttempted THEN exitCode # 0 /\ err.kind = "config"
                         ELSE exitCode = 0 /\ err = NoError

\* without credentials, a delta run with new records and --no-telegram returned 0
C13_Witness ==
    /\ pc = "done" /\ CredentialsMissing
    /\ ~args.dry_run /\ args.no_telegram
    /\ ~db_is_empty(pre.dramas)
    /\ new_items # <<>>
    /\ exitCode = 0

----------------------------------------------------------------------------
(* C14 *)

\* C14: in a non-dry run with --no-telegram nothing is ever handed to the sender,
\* and once fetch and extraction have succeeded the run returns 0 with the store
\* updated: on a non-empty ledger every current record has been upserted (so the
\* records new in this run are in the ledger), on an empty ledger every current
\* record has been inserted as the baseline; last_run_at is the run's instant.
C14_SuppressedStillStores ==
    (pc # "idle" /\ ~args.dry_run /\ args.no_telegram) =>
        /\ handed = <<>>
        /\ (pc = "done" /\ dt # 0) =>
              /\ exitCode = 0
              /\ last_run_at = isoformat(dt)
              /\ \A n \in NamesOf(items) :
                    /\ n \in DOMAIN dramas
                    /\ dramas[n].last_seen = DayOf(dt)
                    /\ (db_is_empty(pre.dramas) => dramas[n].first_seen = DayOf(dt))

\* a delta run with --no-telegram found a new record, sent nothing and stored it
C14_Witness ==
    /\ pc = "done" /\ exitCode = 0
    /\ ~args.dry_run /\ args.no_telegram
    /\ new_items # <<>>
    /\ handed = <<>>
    /\ \A n \in NamesOf(new_items) : n \in DOMAIN dramas /\ n \notin DOMAIN pre.dramas

----------------------------------------------------------------------------
(* C15 *)

\* the page is a sequence of pairs: a name element with text, then its info element
IsPairs(page) ==
    /\ Len(page) % 2 = 0
    /\ \A i \in 1..Len(page) :
          IF i % 2 = 1 THEN page[i].cls = "name" /\ NormalizeWs(page[i].text) # <<>>
                       ELSE page[i].cls = "info"

PairName(page, k) == NormalizeWs(page[2 * k - 1].text)
PairInfo(page, k) == NormalizeWs(page[2 * k].text)

\* the pair in which name n occurs first
FirstPair(page, n) ==
    CHOOSE k \in 1..(Len(page) \div 2) :
        /\ PairName(page, k) = n
        /\ \A j \in 1..(k - 1) : PairName(page, j) # n

\* C15: for every sequence of name/info pairs, the items returned hold every
\* distinct name of the pairs exactly once and no other name; the item of a name
\* has the platform, first-day flag and online descriptor of the first pair with
\* that name; the items are in the order of those first pairs.
C15_DedupKeepsFirst ==
    (pc = "parsed" /\ IsPairs(html)) =>
        LET P == 1..(Len(html) \div 2) IN
        /\ \A k \in P :
              Cardinality({i \in 1..Len(items) : items[i].name = PairName(html, k)}) = 1
        /\ \A i \in 1..Len(items) :
              /\ \E k \in P : PairName(html, k) = items[i].name
              /\ LET info == PairInfo(html, FirstPair(html, items[i].name)) IN
                 /\ items[i].platform = extract_platform(info)
                 /\ items[i].is_first_day = is_first_day_info(info)
                 /\ items[i].online_desc = extract_online_desc(info)
        /\ \A i, j \in 1..Len(items) :
              i < j => FirstPair(html, items[i].name) < FirstPair(html, items[j].name)

\* three pairs A, B, A whose first and third differ in platform and first-day flag
C15_Witness ==
    /\ pc = "parsed" /\ IsPairs(html)
    /\ Len(html) = 6
    /\ PairName(html, 1) = PairName(html, 3)
    /\ PairName(html, 1) # PairName(html, 2)
    /\ extract_platform(PairInfo(html, 1)) # extract_platform(PairInfo(html, 3))
    /\ is_first_day_info(PairInfo(html, 1)) /\ ~is_first_day_info(PairInfo(html, 3))
    /\ Len(items) = 2

----------------------------------------------------------------------------
(* C16 *)

NameElements(page) == SelectSeq(page, LAMBDA e : e.cls = "name")
InfoElements(page) == SelectSeq(page, LAMBDA e : e.cls = "info")

\* C16 as stated: the item built from the i-th name element of the page (the
\* first one with its name) has the platform, first-day flag and online
\* descriptor of the i-th info element, and those of the empty text when the
\* page has fewer than i info elements; whether or not other name or info
\* elements have blank text.
C16_PositionalPairing ==
    pc = "parsed" =>
        LET ns == NameElements(html)
            fs == InfoElements(html)
        IN \A i \in 1..Len(ns) :
              LET n == NormalizeWs(ns[i].text)
                  info == IF i <= Len(fs) THEN NormalizeWs(fs[i].text) ELSE <<>>
              IN (n # <<>> /\ \A j \in 1..(i - 1) : NormalizeWs(ns[j].text) # n) =>
                    \E k \in 1..Len(items) : items[k] = DramaItem(n, info)

----------------------------------------------------------------------------
(* C17 *)

\* C17: open_db on a store whose table dramas has the column "source" leaves a
\* table without it that holds the same names with the same first_seen, last_seen
\* and last_info; on a store already migrated it changes nothing; when a
\* statement of the rebuild raises, the table, its column and its rows are as
\* before, and so is last_run_at, so the open of a later run, which this clause
\* covers as well, carries the migration out.
C17_MigrationPreservesRows ==
    [][(pc = "open" /\ ~args.dry_run) =>
          IF pc' = "check"
          THEN /\ dbExists' /\ ~hasSource' /\ ~dramas_new'
               /\ DOMAIN dramas' = DOMAIN dramas
               /\ \A n \in DOMAIN dramas :
                     dramas'[n] = [first_seen |-> dramas[n].first_seen,
                                   last_seen |-> dramas[n].last_seen,
                                   last_info |-> dramas[n].last_info]
               /\ last_run_at' = last_run_at
               /\ (dbExists /\ ~hasSource) => UNCHANGED storeVars
          ELSE /\ pc' = "done" /\ exitCode' # 0
               /\ dramas' = dramas
               /\ hasSource' = hasSource
               /\ last_run_at' = last_run_at]_vars

\* a run began on a store whose rebuild an earlier run had left unfinished
\* (dramas_new is there, the column too) and its open_db migrated the row
C17_Witness ==
    /\ pc = "check"
    /\ pre.hasSource /\ pre.dramas_new
    /\ ~hasSource /\ ~dramas_new
    /\ NameA \in DOMAIN dramas
    /\ pre.dramas[NameA].last_info = PlatP
    /\ dramas[NameA] = [first_seen |-> pre.dramas[NameA].first_seen,
                        last_seen |-> pre.dramas[NameA].last_seen,
                        last_info |-> PlatP]

----------------------------------------------------------------------------
(* C18 *)

\* C18: the names of the ledger only grow: no step of a run (open_db with its
\* migration, db_insert_baseline, db_find_new_items, db_upsert_items, whether it
\* returns or raises) removes a name; and db_find_new_items returns no name that
\* is in the ledger.  So a name once in the ledger is never new again, whatever
\* the pages fetched in between held.
C18_LedgerOnlyGrows ==
    [][/\ DOMAIN dramas \subseteq DOMAIN dramas'
       /\ (pc = "check" /\ pc' = "delta") =>
             NamesOf(new_items') \cap DOMAIN dramas = {}]_vars

\* B was stored, then missing from the page of a run on a later day that saw A,
\* and is on the page again: it is not new
C18_Witness ==
    /\ pc = "delta"
    /\ NameB \in NamesOf(items)
    /\ {NameA, NameB} \subseteq DOMAIN dramas
    /\ dramas[NameB].first_seen >= 0
    /\ dramas[NameB].last_seen < dramas[NameA].last_seen
    /\ dramas[NameA].last_seen <= DayOf(dt)
    /\ new_items = <<>>

----------------------------------------------------------------------------
(* C19 *)

\* C19: once a run has handed the sender a text listing name X and returned 0,
\* no later run hands the sender a text listing X.
C19_NoSecondAlert ==
    [][Len(handed') > Len(handed) =>
          NamesIn(<<handed'[Len(handed')]>>) \cap alerted = {}]_vars

\* a name alerted by an earlier run is on the page of a later run that could
\* notify; that run returned 0 and handed the sender nothing about it
C19_Witness ==
    /\ pc = "done" /\ exitCode = 0
    /\ ~args.dry_run /\ ~args.no_telegram
    /\ \E n \in alerted : n \in NamesOf(items) /\ n \notin NamesIn(handed)

----------------------------------------------------------------------------
(* C20 *)

\* the entries of a table: name, first_seen, last_seen, last_info
Ledger(d) == [n \in DOMAIN d |-> CopyRow(d[n])]

\* the run handed a text to the sender and the sender raised
SendFailed == pc = "done" /\ handed # <<>> /\ delivered = <<>>

\* what C20 says of the state a failed send leaves
AfterFailedSend ==
    /\ exitCode # 0
    /\ err.kind \in {"send", "config"}
    /\ upserts = 0
    /\ Ledger(dramas) = Ledger(pre.dramas)
    /\ last_run_at = pre.last_run_at
    /\ new_items # <<>>
    /\ FindNewFrom(<<>>, dramas, items) = new_items

\* C20: in a run the send comes before the upsert: when a text is handed to the
\* sender no upsert has been made.  When the send fails, for an error of the
\* sender or for missing credentials, the run ends with a non-zero exit, without
\* an upsert, with the ledger entries and last_run_at as they were when the run
\* began; so db_find_new_items on the same items returns the same non-empty list
\* and a following run with that extraction reaches the send again.
C20_SendPrecedesUpsert ==
    [][/\ Len(handed') > Len(handed) => upserts = 0 /\ upserts' = 0
       /\ SendFailed' => AfterFailedSend']_vars

\* the sender raised for a new record on the second day; the ledger still lacks it
C20_Witness ==
    /\ SendFailed
    /\ err.kind = "send"
    /\ ~db_is_empty(dramas)
    /\ \E n \in NamesOf(new_items) : n \notin DOMAIN dramas
    /\ last_run_at # isoformat(dt)

====
